---- MODULE Spec2Model ----
(***************************************************************************)
(* Model of the task API of src/main.py: the five task endpoints served    *)
(* by FastAPI over one SQLite table, each request with its own Session.    *)
(*                                                                         *)
(* A request is handled by a worker thread (the handlers are plain `def`   *)
(* functions).  What a handler does between two statements that touch the  *)
(* database is local to it, so a handler is modelled by its database       *)
(* steps: the first read (together with the arrival of the request, the    *)
(* validation of its body and the opening of its session), the commit,     *)
(* the refresh that produces the response, and the closing of the          *)
(* session.                                                                *)
(***************************************************************************)
EXTENDS Naturals, Sequences, FiniteSets, TLC

\* ------------------------------------------------------------------ bounds
\* Largest id the model lets the table reach.
MaxId == 2

\* ------------------------------------------------------- program constants
MinLength == 1
MaxLength == 100

\* ------------------------------------------------------------ input values
\* A 100-character title (the longest valid one) and a 101-character one.
Title100 == "xxxxxxxxxxxxxxxxxxxxxxxxxxxxxxxxxxxxxxxxxxxxxxxxxxxxxxxxxxxxxxxxxxxxxxxxxxxxxxxxxxxxxxxxxxxxxxxxxxxx"
Title101 == "xxxxxxxxxxxxxxxxxxxxxxxxxxxxxxxxxxxxxxxxxxxxxxxxxxxxxxxxxxxxxxxxxxxxxxxxxxxxxxxxxxxxxxxxxxxxxxxxxxxxx"
GoodTitles == {"a", Title100}
BadTitles == {"", Title101}

\* Worker threads that handle requests, and the Session objects that can be
\* alive at one time.
Slots == {1, 2}
Handles == {1, 2}

Ids == 1..MaxId

\* An optional JSON field: <<>> when the body does not carry it.
Opt(S) == {<<>>} \cup {<<v>> : v \in S}

\* Request bodies of POST /tasks (Task) and of PUT /tasks/{id} (TaskBase).
TaskBodies == [title : Opt(GoodTitles \cup BadTitles), done : Opt(BOOLEAN), id : Opt(Ids)]
TaskBaseBodies == [title : Opt(GoodTitles \cup BadTitles), done : Opt(BOOLEAN)]
\* The bodies sent where the last request on each task is recorded.
PairTaskBodies == [title : {<<"a">>, <<Title100>>}, done : Opt(BOOLEAN), id : {<<>>}]
PairTaskBaseBodies == [title : {<<"a">>, <<Title100>>, <<"">>}, done : Opt(BOOLEAN)]
\* The bodies sent while requests are handled concurrently.
ConcTaskBodies == [title : Opt({"a"}), done : {<<>>}, id : Opt({1})]
ConcTaskBaseBodies == [title : Opt({"a"}), done : Opt({TRUE})]

VARIABLES
    tasks,          \* the table: id -> [title, done]
    pc,             \* per worker: "idle", "commit", "refresh", "returned"
    h,              \* per worker: the request it handles and the handler's locals
    resp,           \* per worker: the response of the request it handled
    sess,           \* per worker: the Session of its request, 0 when none
    open,           \* the Sessions that are open
    tableValidated, \* whether the installed SQLModel validates a table=True body
    usedIds,        \* history: the ids successful creates returned
    deletedIds,     \* history: the ids successful deletes removed
    shadow,         \* history: id -> what the successful requests on that task set
    hist            \* history: id -> the last successful request on that task

vars == <<tasks, pc, h, resp, sess, open, tableValidated,
          usedIds, deletedIds, shadow, hist>>
History == <<usedIds, deletedIds, shadow, hist>>

\* ----------------------------------------------------------------- helpers
Max(S) == CHOOSE m \in S : \A n \in S : n <= m

Row(title, done) == [title |-> title, done |-> done]
TaskRead(i, row) == [id |-> i, title |-> row.title, done |-> row.done]
Without(f, i) == [j \in DOMAIN f \ {i} |-> f[j]]

\* What a worker holds of a request: the endpoint, the id the request gave (in
\* the path, or in the body of a create; 0 when none), the id of the task (the
\* one given, or the one the insert assigned), the title and done the handler
\* is to store, and the row session.get loaded.
NoFrame ==
    [op |-> "none", given |-> 0, id |-> 0, title |-> <<>>, done |-> FALSE, loaded |-> <<>>]
Frame(op, i, title, done, loaded) ==
    [op |-> op, given |-> i, id |-> i, title |-> title, done |-> done, loaded |-> loaded]
NoResponse == [status |-> 0, detail |-> "", tasks |-> {}]
Response(status, detail, records) == [status |-> status, detail |-> detail, tasks |-> records]
NoHist == [op |-> "none", prev |-> "none", before |-> FALSE, after |-> FALSE]

\* title: constr(min_length=1, max_length=100)
TitleOk(t) == Len(t) >= MinLength /\ Len(t) <= MaxLength
\* TaskBase: title is required and constrained; done defaults to False.
TaskBaseValid(body) == body.title # <<>> /\ TitleOk(body.title[1])
DoneOrDefault(body) == IF body.done = <<>> THEN FALSE ELSE body.done[1]
\* Task(TaskBase, table=True) as a request body.  Whether the constraints of
\* TaskBase are enforced on a table model is decided by the installed
\* SQLModel/pydantic, which the repository does not pin: the body is either
\* validated like a TaskBase or constructed without validation.
TaskValid(body) == tableValidated => TaskBaseValid(body)

\* id: int | None = Field(default=None, primary_key=True) on SQLite: the table
\* has an INTEGER PRIMARY KEY without AUTOINCREMENT, so a row inserted without
\* an id gets the largest id in use plus one.
NextRowId(t) == IF DOMAIN t = {} THEN 1 ELSE Max(DOMAIN t) + 1

\* Faulty variant: the check looks at the first row only.
ExistingFirstTask(t, title) ==
    DOMAIN t # {} /\ <<t[CHOOSE i \in DOMAIN t : \A j \in DOMAIN t : i <= j].title>> = title
\* select(Task).where(Task.title == task.title)).first()
ExistingTask(t, title) == \E i \in DOMAIN t : <<t[i].title>> = title

\* Faulty variant: the toggle sets done instead of negating it.
AlwaysDone(done) == TRUE
\* task.done = not task.done
NotDone(done) == ~done

\* The model stops admitting creates that would push an id past MaxId.
PendingCreates == {q \in Slots : pc[q] = "commit" /\ h[q].op = "create"}
IdRoom(body) ==
    LET explicit == {h[q].id : q \in PendingCreates} \ {0}
        given == IF body.id = <<>> THEN {} ELSE {body.id[1]}
        top == Max(DOMAIN tasks \cup explicit \cup given \cup {0})
        auto == Cardinality({q \in PendingCreates : h[q].id = 0})
                + (IF body.id = <<>> THEN 1 ELSE 0)
    IN  top + auto <= MaxId

\* ----------------------------------------------------------------- session
\* with Session(engine) as session: yield session  -- a new Session object.
NewSession == CHOOSE s \in Handles \ open : \A t \in Handles \ open : s <= t
get_session(r) ==
    /\ Handles \ open # {}
    /\ sess' = [sess EXCEPT ![r] = NewSession]
    /\ open' = open \cup {NewSession}

\* Faulty variant: the session is closed only when the handler returned normally.
ClosedOnReturn(status) == status = 200
\* Leaving the `with` block closes the session, however the block is left.
ClosedOnExit(status) == TRUE

\* The handler returns, or raises: the response is set.
Return(r, frame, response) ==
    /\ pc' = [pc EXCEPT ![r] = "returned"]
    /\ h' = [h EXCEPT ![r] = frame]
    /\ resp' = [resp EXCEPT ![r] = response]

Proceed(r, stage, frame) ==
    /\ pc' = [pc EXCEPT ![r] = stage]
    /\ h' = [h EXCEPT ![r] = frame]
    /\ UNCHANGED resp

\* ---------------------------------------------------------------- handlers
\* POST /tasks, up to the duplicate-title check.
create_task(r, body) ==
    LET frame == Frame("create", IF body.id = <<>> THEN 0 ELSE body.id[1],
                       body.title, DoneOrDefault(body), <<>>)
    IN  /\ pc[r] = "idle"
        /\ get_session(r)
        /\ IF ~TaskValid(body)
             THEN Return(r, frame, Response(422, "validation", {}))
             ELSE IF ExistingTask(tasks, body.title)
               THEN Return(r, frame, Response(400, "Ya existe una tarea con ese titulo", {}))
               ELSE IdRoom(body) /\ Proceed(r, "commit", frame)
        /\ UNCHANGED <<tasks, tableValidated>>

\* Faulty variant: the title column is declared unique.
InsertRefusedOnTitle(t, frame) ==
    \/ frame.title = <<>> \/ frame.id \in DOMAIN t
    \/ \E i \in DOMAIN t : <<t[i].title>> = frame.title
\* What makes the INSERT fail: the table's constraints are NOT NULL on title
\* and the primary key; no constraint is declared on the title's value.
InsertRefused(t, frame) == frame.title = <<>> \/ frame.id \in DOMAIN t

\* session.add(task); session.commit() of create_task.
create_commit(r) ==
    /\ pc[r] = "commit" /\ h[r].op = "create"
    /\ IF InsertRefused(tasks, h[r])
         THEN \* IntegrityError: 500
              /\ Return(r, h[r], Response(500, "Internal Server Error", {}))
              /\ UNCHANGED tasks
         ELSE LET i == IF h[r].id # 0 THEN h[r].id ELSE NextRowId(tasks)
              IN  /\ tasks' = (i :> Row(h[r].title[1], h[r].done)) @@ tasks
                  /\ Proceed(r, "refresh", [h[r] EXCEPT !.id = i])
    /\ UNCHANGED <<sess, open, tableValidated>>

\* GET /tasks
read_tasks(r) ==
    /\ pc[r] = "idle"
    /\ get_session(r)
    /\ Return(r, [NoFrame EXCEPT !.op = "list"],
              Response(200, "", {TaskRead(i, tasks[i]) : i \in DOMAIN tasks}))
    /\ UNCHANGED <<tasks, tableValidated>>

\* Faulty variant: a missing task is returned as an empty 200 instead of raised.
LookupNoRaise(r, op, task_id, title, done) ==
    IF task_id \notin DOMAIN tasks
      THEN Return(r, Frame(op, task_id, title, done, <<>>), Response(200, "", {}))
      ELSE Proceed(r, "commit", Frame(op, task_id, title, done, <<tasks[task_id]>>))
\* session.get(Task, task_id) and the 404 of the four handlers that use it.
Lookup(r, op, task_id, title, done) ==
    IF task_id \notin DOMAIN tasks
      THEN Return(r, Frame(op, task_id, title, done, <<>>),
                  Response(404, "Tarea no encontrada", {}))
      ELSE Proceed(r, "commit", Frame(op, task_id, title, done, <<tasks[task_id]>>))

\* Faulty variant: the update refuses a title another task holds, as create does.
update_task_unique(r, task_id, body) ==
    /\ pc[r] = "idle"
    /\ get_session(r)
    /\ IF ~TaskBaseValid(body)
         THEN Return(r, Frame("update", task_id, body.title, DoneOrDefault(body), <<>>),
                     Response(422, "validation", {}))
         ELSE IF \E i \in DOMAIN tasks \ {task_id} : <<tasks[i].title>> = body.title
           THEN Return(r, Frame("update", task_id, body.title, DoneOrDefault(body), <<>>),
                       Response(400, "Ya existe una tarea con ese titulo", {}))
           ELSE Lookup(r, "update", task_id, body.title, DoneOrDefault(body))
    /\ UNCHANGED <<tasks, tableValidated>>
\* PUT /tasks/{task_id}, up to the assignments.
update_task(r, task_id, body) ==
    /\ pc[r] = "idle"
    /\ get_session(r)
    /\ IF ~TaskBaseValid(body)
         THEN Return(r, Frame("update", task_id, body.title, DoneOrDefault(body), <<>>),
                     Response(422, "validation", {}))
         ELSE Lookup(r, "update", task_id, body.title, DoneOrDefault(body))
    /\ UNCHANGED <<tasks, tableValidated>>

\* DELETE /tasks/{task_id}, up to session.delete.
delete_task(r, task_id) ==
    /\ pc[r] = "idle"
    /\ get_session(r)
    /\ Lookup(r, "delete", task_id, <<>>, FALSE)
    /\ UNCHANGED <<tasks, tableValidated>>

\* PATCH /tasks/{task_id}/done, up to task.done = True.
mark_task_done(r, task_id) ==
    /\ pc[r] = "idle"
    /\ get_session(r)
    /\ Lookup(r, "done", task_id,
              IF task_id \in DOMAIN tasks THEN <<tasks[task_id].title>> ELSE <<>>, TRUE)
    /\ UNCHANGED <<tasks, tableValidated>>

\* PATCH /tasks/{task_id}/toggle, up to task.done = not task.done.
toggle_task(r, task_id) ==
    /\ pc[r] = "idle"
    /\ get_session(r)
    /\ Lookup(r, "toggle", task_id,
              IF task_id \in DOMAIN tasks THEN <<tasks[task_id].title>> ELSE <<>>,
              IF task_id \in DOMAIN tasks THEN NotDone(tasks[task_id].done) ELSE FALSE)
    /\ UNCHANGED <<tasks, tableValidated>>

\* The row an UPDATE leaves: the session writes the columns whose value
\* differs from the one it loaded, and only those.
Written(current, loaded, title, done) ==
    Row(IF title # loaded.title THEN title ELSE current.title,
        IF done # loaded.done THEN done ELSE current.done)

\* session.add(task); session.commit() of update_task, mark_task_done and
\* toggle_task.
update_commit(r) ==
    /\ pc[r] = "commit" /\ h[r].op \in {"update", "done", "toggle"}
    /\ LET loaded == h[r].loaded[1]
           dirty == Row(h[r].title[1], h[r].done) # loaded
       IN  IF dirty /\ h[r].id \notin DOMAIN tasks
             THEN \* StaleDataError: the UPDATE matched no row
                  /\ Return(r, h[r], Response(500, "Internal Server Error", {}))
                  /\ UNCHANGED tasks
             ELSE /\ tasks' = IF dirty
                                THEN [tasks EXCEPT ![h[r].id] =
                                        Written(@, loaded, h[r].title[1], h[r].done)]
                                ELSE tasks
                  /\ Proceed(r, "refresh", h[r])
    /\ UNCHANGED <<sess, open, tableValidated>>

\* Faulty variant: the delete is never committed.
RowKept(t, i) == t
\* The table after DELETE ... WHERE id = i is committed.
RowDeleted(t, i) == [j \in DOMAIN t \ {i} |-> t[j]]

\* session.delete(task); session.commit(); return {"mensaje": ...}
delete_commit(r) ==
    /\ pc[r] = "commit" /\ h[r].op = "delete"
    /\ tasks' = RowDeleted(tasks, h[r].id)
    /\ Return(r, h[r], Response(200, "eliminada", {}))
    /\ UNCHANGED <<sess, open, tableValidated>>

\* session.refresh(task); return task
refresh(r) ==
    /\ pc[r] = "refresh"
    /\ IF h[r].id \notin DOMAIN tasks
         THEN \* the row is gone: refresh raises, 500
              Return(r, h[r], Response(500, "Internal Server Error", {}))
         ELSE Return(r, h[r], Response(200, "", {TaskRead(h[r].id, tasks[h[r].id])}))
    /\ UNCHANGED <<tasks, sess, open, tableValidated>>

\* The response is sent and the dependency's `with` block is left.
close_session(r) ==
    /\ pc[r] = "returned"
    /\ open' = IF ClosedOnExit(resp[r].status) THEN open \ {sess[r]} ELSE open
    /\ sess' = [sess EXCEPT ![r] = 0]
    /\ pc' = [pc EXCEPT ![r] = "idle"]
    /\ h' = [h EXCEPT ![r] = NoFrame]
    /\ resp' = [resp EXCEPT ![r] = NoResponse]
    /\ UNCHANGED <<tasks, tableValidated>>

\* ----------------------------------------------------------------- history
\* What a client that sees every request and response can record.  Worker r
\* has just taken a step: Arrives when it took a request, Answers when that
\* step produced the response; Sent(r) is the record a 200 response carries.
Arrives(r, op) == pc[r] = "idle" /\ pc'[r] # "idle" /\ h'[r].op = op
Answers(r, op, status) ==
    pc[r] # "returned" /\ pc'[r] = "returned" /\ h'[r].op = op /\ resp'[r].status = status
Sent(r) == CHOOSE t \in resp'[r].tasks : TRUE
Target(r) == h'[r].id

\* The ids successful creates returned, and those successful deletes removed.
ObserveIds(r) ==
    /\ usedIds' = IF Answers(r, "create", 200) THEN usedIds \cup {Sent(r).id} ELSE usedIds
    /\ deletedIds' = IF Answers(r, "delete", 200) THEN deletedIds \cup {Target(r)}
                     ELSE deletedIds

\* Per task, what the successful requests on it set: a create the title and
\* done of its body under the id returned, an update the title and done of
\* its body, a mark-done done = true, a toggle the negation of done; a delete
\* removes the task.
ObserveRecords(r) ==
    shadow' =
      IF Answers(r, "create", 200)
        THEN (Sent(r).id :> [id |-> Sent(r).id, title |-> h'[r].title[1], done |-> h'[r].done])
             @@ shadow
      ELSE IF Answers(r, "delete", 200) THEN Without(shadow, Target(r))
      ELSE IF Target(r) \notin DOMAIN shadow THEN shadow
      ELSE IF Answers(r, "update", 200)
        THEN [shadow EXCEPT ![Target(r)] =
                [id |-> Target(r), title |-> h'[r].title[1], done |-> h'[r].done]]
      ELSE IF Answers(r, "done", 200) THEN [shadow EXCEPT ![Target(r)].done = TRUE]
      ELSE IF Answers(r, "toggle", 200) THEN [shadow EXCEPT ![Target(r)].done = ~@]
      ELSE shadow

\* Per task, the last successful request on it (op) and the one before it
\* (prev), with the done it returned (after) and the done the request before
\* it had returned (before).
ObserveLast(r) ==
    hist' =
      IF \E op \in {"done", "toggle"} : Answers(r, op, 200)
        THEN [hist EXCEPT ![Target(r)] =
                [op |-> h'[r].op, prev |-> hist[Target(r)].op,
                 before |-> hist[Target(r)].after, after |-> Sent(r).done]]
      ELSE IF \E op \in {"create", "update"} : Answers(r, op, 200)
        THEN [hist EXCEPT ![Sent(r).id] =
                [op |-> "other", prev |-> "none", before |-> FALSE, after |-> Sent(r).done]]
      ELSE IF Answers(r, "delete", 200) THEN [hist EXCEPT ![Target(r)] = NoHist]
      ELSE hist

\* ----------------------------------------------------------- specification
Init ==
    /\ tasks = <<>>
    /\ pc = [r \in Slots |-> "idle"]
    /\ h = [r \in Slots |-> NoFrame]
    /\ resp = [r \in Slots |-> NoResponse]
    /\ sess = [r \in Slots |-> 0]
    /\ open = {}
    /\ tableValidated \in BOOLEAN
    /\ usedIds = {}
    /\ deletedIds = {}
    /\ shadow = <<>>
    /\ hist = [i \in Ids |-> NoHist]

\* A request goes to the first free worker.
FreeSlot(r) == pc[r] = "idle" /\ \A q \in Slots : pc[q] = "idle" => r <= q
\* One request at a time: the next one arrives when the last one is done.
Alone(r) == FreeSlot(r) /\ \A q \in Slots : pc[q] = "idle"

\* Requests handled one after the other; what they set is recorded.
Returned(r) == ObserveRecords(r) /\ UNCHANGED <<usedIds, deletedIds, hist>>
Request(r, Handler) == Alone(r) /\ Handler /\ Returned(r)
Step(r, HandlerStep) == HandlerStep /\ Returned(r)
Next ==
    \E r \in Slots :
        \/ \E body \in TaskBodies : Request(r, create_task(r, body))
        \/ Request(r, read_tasks(r))
        \/ \E i \in Ids, body \in TaskBaseBodies : Request(r, update_task(r, i, body))
        \/ \E i \in Ids : Request(r, delete_task(r, i))
        \/ \E i \in Ids : Request(r, mark_task_done(r, i))
        \/ \E i \in Ids : Request(r, toggle_task(r, i))
        \/ Step(r, create_commit(r))
        \/ Step(r, update_commit(r))
        \/ Step(r, delete_commit(r))
        \/ Step(r, refresh(r))
        \/ Step(r, close_session(r))
Spec == Init /\ [][Next]_vars

\* Requests handled one after the other; the last request on each task is
\* recorded.
Last(r) == ObserveLast(r) /\ UNCHANGED <<usedIds, deletedIds, shadow>>
PairRequest(r, Handler) == Alone(r) /\ Handler /\ Last(r)
PairStep(r, HandlerStep) == HandlerStep /\ Last(r)
PairNext ==
    \E r \in Slots :
        \/ \E body \in PairTaskBodies : PairRequest(r, create_task(r, body))
        \/ PairRequest(r, read_tasks(r))
        \/ \E i \in Ids, body \in PairTaskBaseBodies : PairRequest(r, update_task(r, i, body))
        \/ \E i \in Ids : PairRequest(r, delete_task(r, i))
        \/ \E i \in Ids : PairRequest(r, mark_task_done(r, i))
        \/ \E i \in Ids : PairRequest(r, toggle_task(r, i))
        \/ PairStep(r, create_commit(r))
        \/ PairStep(r, update_commit(r))
        \/ PairStep(r, delete_commit(r))
        \/ PairStep(r, refresh(r))
        \/ PairStep(r, close_session(r))
PairSpec == Init /\ [][PairNext]_vars

\* Requests handled one after the other; the ids created and deleted are
\* recorded.
Numbered(r) == ObserveIds(r) /\ UNCHANGED <<shadow, hist>>
IdRequest(r, Handler) == Alone(r) /\ Handler /\ Numbered(r)
IdStep(r, HandlerStep) == HandlerStep /\ Numbered(r)
IdNext ==
    \E r \in Slots :
        \/ \E body \in TaskBodies : IdRequest(r, create_task(r, body))
        \/ IdRequest(r, read_tasks(r))
        \/ \E i \in Ids, body \in TaskBaseBodies : IdRequest(r, update_task(r, i, body))
        \/ \E i \in Ids : IdRequest(r, delete_task(r, i))
        \/ \E i \in Ids : IdRequest(r, mark_task_done(r, i))
        \/ \E i \in Ids : IdRequest(r, toggle_task(r, i))
        \/ IdStep(r, create_commit(r))
        \/ IdStep(r, update_commit(r))
        \/ IdStep(r, delete_commit(r))
        \/ IdStep(r, refresh(r))
        \/ IdStep(r, close_session(r))
IdSpec == Init /\ [][IdNext]_vars

\* Requests handled concurrently, one per worker thread.
ConcRequest(r, Handler) == FreeSlot(r) /\ Handler /\ UNCHANGED History
ConcStep(r, HandlerStep) == HandlerStep /\ UNCHANGED History
ConcNext ==
    \E r \in Slots :
        \/ \E body \in ConcTaskBodies : ConcRequest(r, create_task(r, body))
        \/ ConcRequest(r, read_tasks(r))
        \/ \E i \in Ids, body \in ConcTaskBaseBodies : ConcRequest(r, update_task(r, i, body))
        \/ \E i \in Ids : ConcRequest(r, delete_task(r, i))
        \/ \E i \in Ids : ConcRequest(r, mark_task_done(r, i))
        \/ \E i \in Ids : ConcRequest(r, toggle_task(r, i))
        \/ ConcStep(r, create_commit(r))
        \/ ConcStep(r, update_commit(r))
        \/ ConcStep(r, delete_commit(r))
        \/ ConcStep(r, refresh(r))
        \/ ConcStep(r, close_session(r))
ConcSpec == Init /\ [][ConcNext]_vars

\* A worker thread that has taken a request keeps running: each step of its
\* handler, and the closing of its session, is eventually taken.
Progress(r) ==
    \/ ConcStep(r, create_commit(r))
    \/ ConcStep(r, update_commit(r))
    \/ ConcStep(r, delete_commit(r))
    \/ ConcStep(r, refresh(r))
    \/ ConcStep(r, close_session(r))
FairSpec == ConcSpec /\ \A r \in Slots : WF_vars(Progress(r))

\* ------------------------------------------------------------------ claims
\* What the claims say of a request, read off the request and the table and
\* not off the handlers' own tests.
Mutators == {"update", "delete", "done", "toggle"}
\* The title a body carries is present and of 1 to 100 characters.
WellFormed(title) == title # <<>> /\ Len(title[1]) >= 1 /\ Len(title[1]) <= 100
\* Some stored task holds the title.
Held(title) == \E i \in DOMAIN tasks : title = <<tasks[i].title>>
\* Worker r has taken a request that passes validation.
Accepts(r, op) == Arrives(r, op) /\ (op \in {"create", "update"} => WellFormed(h'[r].title))
\* Worker r, past the first read of its handler, produces the response.
Completes(r, op) == pc[r] \in {"commit", "refresh"} /\ h[r].op = op /\ pc'[r] = "returned"

\* C1: a create request whose title no stored task holds succeeds, and the id
\* of the record it returns is the id of no task created earlier, deleted
\* ones included.  (Stated of the requests that leave the id to the server.)
C1_CreateGivesUnusedId ==
    [][\A r \in Slots :
         /\ (Accepts(r, "create") /\ ~Held(h'[r].title)) => pc'[r] = "commit"
         /\ (Completes(r, "create") /\ WellFormed(h[r].title) /\ h[r].given = 0) =>
                (resp'[r].status = 200 /\ Sent(r).id \notin usedIds)]_vars

\* C2: a create request whose title a stored task holds fails with 400 and
\* leaves the table as it was.
C2_DuplicateTitleRejected ==
    [][\A r \in Slots :
         (Arrives(r, "create") /\ Held(h'[r].title)) =>
             (pc'[r] = "returned" /\ resp'[r].status = 400 /\ tasks' = tasks)]_vars
C2_Witness ==
    \E r \in Slots :
        /\ pc[r] = "returned" /\ h[r].op = "create" /\ resp[r].status = 400
        /\ Held(h[r].title) /\ Cardinality(DOMAIN tasks) = 2

C4_DeletedIdStaysGone ==
    [][\A r \in Slots :
         /\ Arrives(r, "list") => \A t \in resp'[r].tasks : t.id \notin deletedIds
         /\ \A op \in Mutators :
              (Accepts(r, op) /\ h'[r].id \in deletedIds) =>
                  (pc'[r] = "returned" /\ resp'[r].status = 404)]_vars

C7_UpdateReplaces ==
    [][\A r \in Slots :
         /\ (Accepts(r, "update") /\ h'[r].id \in DOMAIN tasks) => pc'[r] = "commit"
         /\ (pc[r] = "commit" /\ h[r].op = "update" /\ pc'[r] # "commit") =>
                /\ pc'[r] = "refresh"
                /\ tasks' = [tasks EXCEPT ![h[r].id] = [title |-> h[r].title[1], done |-> h[r].done]]
         /\ Completes(r, "update") =>
                /\ resp'[r].status = 200
                /\ resp'[r].tasks = {[id |-> h[r].id, title |-> h[r].title[1], done |-> h[r].done]}]_vars
C7_Witness ==
    \E r \in Slots :
        /\ pc[r] = "returned" /\ h[r].op = "update" /\ resp[r].status = 200
        /\ \E j \in DOMAIN tasks : j # h[r].id /\ <<tasks[j].title>> = h[r].title

\* C8: a create or update request whose body has an empty title, a title of
\* more than 100 characters or no title is rejected with 422 before the
\* handler runs, and nothing is written.
C8_InvalidBodyRejected ==
    [][\A r \in Slots, op \in {"create", "update"} :
         (Arrives(r, op) /\ ~WellFormed(h'[r].title)) =>
             (pc'[r] = "returned" /\ resp'[r].status = 422 /\ tasks' = tasks)]_vars

\* C9: the insert of a create takes no account of what was inserted since its
\* duplicate-title check: it stores the task under a new id whatever titles
\* are stored by then, so two creates of one title that both passed the check
\* both succeed.
C9_InsertAfterCheckUnguarded ==
    [][\A r \in Slots :
         (pc[r] = "commit" /\ h[r].op = "create" /\ h[r].given = 0 /\ h[r].title # <<>>
            /\ pc'[r] # "commit") =>
             /\ pc'[r] = "refresh"
             /\ h'[r].id \notin DOMAIN tasks
             /\ tasks' = (h'[r].id :> [title |-> h[r].title[1], done |-> h[r].done]) @@ tasks]_vars
C9_Witness ==
    \E r, q \in Slots :
        /\ r # q
        /\ pc[r] = "returned" /\ h[r].op = "create" /\ resp[r].status = 200
        /\ pc[q] = "returned" /\ h[q].op = "create" /\ resp[q].status = 200
        /\ h[r].title = h[q].title /\ h[r].id # h[q].id
        /\ {h[r].id, h[q].id} \subseteq DOMAIN tasks
        /\ tasks[h[r].id].title = tasks[h[q].id].title

\* C10: a request being handled has one session, which is open and is the
\* session of no other request; no session is open but those of the requests
\* being handled; and once the handler has returned or raised, the session is
\* eventually closed.
SessionsScoped ==
    /\ \A r \in Slots : pc[r] = "idle" <=> sess[r] = 0
    /\ \A r \in Slots : pc[r] # "idle" => sess[r] \in open
    /\ \A r, q \in Slots : (r # q /\ pc[r] # "idle" /\ pc[q] # "idle") => sess[r] # sess[q]
    /\ open = {sess[r] : r \in {q \in Slots : pc[q] # "idle"}}
C10_SessionPerRequest ==
    /\ []SessionsScoped
    /\ \A r \in Slots, s \in Handles :
         (pc[r] = "returned" /\ sess[r] = s) ~> (sess[r] = 0 /\ s \notin open)
C10_Witness ==
    \E r, q \in Slots :
        /\ pc[r] = "returned" /\ resp[r].status = 500
        /\ pc[q] = "returned" /\ resp[q].status \in {400, 404}
        /\ sess[r] # sess[q] /\ open = {sess[r], sess[q]}

====
